---- MODULE Spec2Model ----
(***************************************************************************)
(* A model of lsp-textdocument's FullTextDocument (src/src/text_document.rs)*)
(*                                                                         *)
(* content is a Rust String: valid UTF-8. It is modelled as the sequence of *)
(* its bytes; every offset of the model is a byte offset, and the code     *)
(* points are found from the lead bytes as str::char_indices finds them.   *)
(***************************************************************************)
EXTENDS Integers, Sequences, FiniteSets, TLC

\* ------------------------------------------------------------------ bounds
\* longest content, in code points
MaxLen == 3
\* longest text of one content change, in code points
MaxTextLen == 1
\* greatest Position.line an edit or a query uses
MaxLine == 2
\* greatest Position.character an edit or a query uses
MaxCharacter == 2
\* most entries of line_offsets (an edit can add entries without adding lines)
MaxLineCount == 4
\* greatest version number a caller supplies
MaxVersion == 1
\* the documents and positions of the specification of the split calls
SeqMaxLen == 2
SeqMaxLine == 1
SeqMaxCharacter == 1
\* the longest content of a document of the store, in characters
StoreMaxLen == 1
\* the longest content of the document of the store with one uri
OneUriMaxLen == 2

\* ------------------------------------------------------------ str, char
\* A str is its UTF-8 bytes, a sequence of numbers 0..255; a char is the
\* bytes that encode one code point. The code points of the model:
\* 'a', '\n', '\r' and U+10437 (4 bytes in UTF-8, a surrogate pair in
\* UTF-16).
LF == 10
CR == 13
Chars == {<<97>>, <<LF>>, <<CR>>, <<240, 144, 144, 183>>}

\* a UTF-8 continuation byte, 10xxxxxx
is_continuation(b) == b >= 128 /\ b < 192

\* char::len_utf8, from the lead byte of the encoding
len_utf8(b) == IF b < 128 THEN 1 ELSE IF b < 224 THEN 2 ELSE IF b < 240 THEN 3 ELSE 4

\* char::len_utf16: 2 for a supplementary-plane code point (4 bytes in UTF-8)
len_utf16(b) == IF len_utf8(b) = 4 THEN 2 ELSE 1

Min(a, b) == IF a < b THEN a ELSE b

\* str::len: the length in bytes
str_len(s) == Len(s)

\* str::is_char_boundary
is_char_boundary(s, off) ==
    \/ off = 0
    \/ off = Len(s)
    \/ off < Len(s) /\ ~is_continuation(s[off + 1])

\* &s[a..b] panics unless a <= b and both lie on character boundaries
slice_ok(s, a, b) == a <= b /\ is_char_boundary(s, a) /\ is_char_boundary(s, b)

\* &s[a..b]
str_slice(s, a, b) == SubSeq(s, a + 1, b)

\* String::replace_range(a..b, text)
replace_range(s, a, b, text) ==
    str_slice(s, 0, a) \o text \o str_slice(s, b, str_len(s))

\* s.chars().nth(n): the lead byte of the n-th CODE POINT (0-based) from byte
\* i on, -1 for None
RECURSIVE nth_walk(_, _, _)
nth_walk(s, i, n) ==
    IF i > Len(s) THEN -1
    ELSE IF n = 0 THEN s[i]
    ELSE nth_walk(s, i + len_utf8(s[i]), n - 1)

chars_nth(s, n) == nth_walk(s, 1, n)

\* s.chars().count()
RECURSIVE chars_count(_)
chars_count(s) ==
    IF s = <<>> THEN 0
    ELSE (IF is_continuation(Head(s)) THEN 0 ELSE 1) + chars_count(Tail(s))

\* ------------------------------------------------- computed_line_offsets
\* the loop of computed_line_offsets from the code point at byte index i - 1 on
RECURSIVE scan_line_offsets(_, _, _)
scan_line_offsets(text, i, text_offset) ==
    IF i > Len(text) THEN <<>>
    ELSE LET idx == i - 1
         IN  IF text[i] = CR /\ i < Len(text) /\ text[i + 1] = LF
             THEN <<text_offset + idx + 2>> \o scan_line_offsets(text, i + 2, text_offset)
             ELSE IF text[i] = LF \/ text[i] = CR
             THEN <<text_offset + idx + 1>> \o scan_line_offsets(text, i + 1, text_offset)
             ELSE scan_line_offsets(text, i + len_utf8(text[i]), text_offset)

\* mutant: a scan that takes \r and \n for a terminator each, also in \r\n
RECURSIVE scan_every_terminator(_, _, _)
scan_every_terminator(text, i, text_offset) ==
    IF i > Len(text) THEN <<>>
    ELSE IF text[i] = LF \/ text[i] = CR
    THEN <<text_offset + i>> \o scan_every_terminator(text, i + 1, text_offset)
    ELSE scan_every_terminator(text, i + len_utf8(text[i]), text_offset)

computed_line_offsets_every_terminator(text, is_at_line_start, text_offset) ==
    (IF is_at_line_start THEN <<text_offset>> ELSE <<>>)
        \o scan_every_terminator(text, 1, text_offset)

computed_line_offsets(text, is_at_line_start, text_offset) ==
    (IF is_at_line_start THEN <<text_offset>> ELSE <<>>)
        \o scan_line_offsets(text, 1, text_offset)

\* ---------------------------------------------------- line_offset_utf16
\* the loop of line_offset_utf16 from the code point at byte index i - 1 on
RECURSIVE utf16_walk(_, _, _)
utf16_walk(line, i, offset) ==
    IF i > Len(line) THEN 0
    ELSE LET idx == i - 1
         IN  IF idx + len_utf8(line[i]) > offset \/ idx = offset THEN 0
             ELSE len_utf16(line[i]) + utf16_walk(line, i + len_utf8(line[i]), offset)

\* mutant: counts code points, one per character, instead of UTF-16 units
RECURSIVE code_point_walk(_, _, _)
code_point_walk(line, i, offset) ==
    IF i > Len(line) THEN 0
    ELSE LET idx == i - 1
         IN  IF idx + len_utf8(line[i]) > offset \/ idx = offset THEN 0
             ELSE 1 + code_point_walk(line, i + len_utf8(line[i]), offset)

line_offset_code_points(line, offset) == code_point_walk(line, 1, offset)

line_offset_utf16(line, offset) == utf16_walk(line, 1, offset)

\* ------------------------------------------------------ FullTextDocument
\* A Position {line, character}
Pos(l, c) == [line |-> l, character |-> c]

\* FullTextDocument::line_count; line_offsets is a 1-based sequence here, so
\* the source's line_offsets[i] is lo[i + 1]
line_count(lo) == Len(lo)

\* FullTextDocument::content_len
content_len(c) == str_len(c)

\* get_line_and_offset: whether line_offsets.get(line) is Some
has_line(lo, line) == line < Len(lo)

\* get_line_and_offset: the byte span [line_offset, eol_offset) of the line
line_start(lo, line) == lo[line + 1]

\* mutant: ends a line one byte before the start of the next one
eol_offset_before_next(c, lo, line) ==
    IF line + 1 < Len(lo) THEN lo[line + 2] - 1 ELSE content_len(c)

eol_offset(c, lo, line) ==
    IF line + 1 < Len(lo) THEN lo[line + 2] ELSE content_len(c)

\* get_line_and_offset panics when the slice &content[line_offset..eol_offset]
\* is not a slice of the string
get_line_panics(c, lo, line) ==
    has_line(lo, line) /\ ~slice_ok(c, line_start(lo, line), eol_offset(c, lo, line))

\* get_line: the text of the line, its terminator included
get_line(c, lo, line) == str_slice(c, line_start(lo, line), eol_offset(c, lo, line))

\* the loop of offset_at from the code point at byte index i - 1 on: acc is
\* the UTF-16 width of the code points before it
RECURSIVE offset_walk(_, _, _, _)
offset_walk(line, i, acc, character) ==
    IF i > Len(line) THEN str_len(line)
    ELSE IF acc = character THEN i - 1
    ELSE offset_walk(line, i + len_utf8(line[i]), acc + len_utf16(line[i]), character)

offset_at_panics(c, lo, p) == get_line_panics(c, lo, p.line)

\* the line without the terminator it ends with
strip_terminator(line) ==
    LET n == Len(line)
    IN  IF n >= 2 /\ line[n - 1] = CR /\ line[n] = LF THEN SubSeq(line, 1, n - 2)
        ELSE IF n >= 1 /\ (line[n] = LF \/ line[n] = CR) THEN SubSeq(line, 1, n - 1)
        ELSE line

\* mutant: walks the line without its terminator, so a character beyond the
\* line clamps before the terminator
offset_at_before_terminator(c, lo, p) ==
    IF has_line(lo, p.line)
    THEN line_start(lo, p.line)
            + offset_walk(strip_terminator(get_line(c, lo, p.line)), 1, 0, p.character)
    ELSE IF p.line >= line_count(lo) THEN content_len(c) ELSE 0

\* mutant: a line past the table resolves to 0 instead of content_len
offset_at_past_table_zero(c, lo, p) ==
    IF has_line(lo, p.line)
    THEN line_start(lo, p.line) + offset_walk(get_line(c, lo, p.line), 1, 0, p.character)
    ELSE 0

\* FullTextDocument::offset_at
offset_at(c, lo, p) ==
    IF has_line(lo, p.line)
    THEN line_start(lo, p.line) + offset_walk(get_line(c, lo, p.line), 1, 0, p.character)
    ELSE IF p.line >= line_count(lo) THEN content_len(c) ELSE 0

\* the binary search of position_at
RECURSIVE bsearch(_, _, _, _)
bsearch(lo, offset, low, high) ==
    IF low < high
    THEN LET mid == (low + high) \div 2
         IN  IF offset > lo[mid + 1]
             THEN bsearch(lo, offset, mid + 1, high)
             ELSE bsearch(lo, offset, low, mid)
    ELSE low

\* the line position_at settles on (offset already clamped)
position_line(lo, offset) ==
    IF line_count(lo) = 1 THEN 0
    ELSE LET low == bsearch(lo, offset, 0, line_count(lo))
         IN  IF low = 0 THEN 0 ELSE low - 1

\* the byte delta position_at hands to line_offset_utf16: the offset itself on
\* the two early returns for line 0, offset - line_offsets[line] otherwise
position_delta(lo, offset) ==
    IF line_count(lo) = 1 THEN offset
    ELSE LET low == bsearch(lo, offset, 0, line_count(lo))
         IN  IF low = 0 THEN offset ELSE offset - line_start(lo, low - 1)

\* position_at panics when get_line(..).unwrap() has no line or cannot slice
\* it, or when the u32 subtraction offset - line_offsets[line] underflows
position_at_panics(c, lo, offset0) ==
    LET offset == Min(offset0, content_len(c))
        line == position_line(lo, offset)
    IN  \/ ~has_line(lo, line)
        \/ get_line_panics(c, lo, line)
        \/ position_delta(lo, offset) < 0

\* FullTextDocument::position_at
position_at(c, lo, offset0) ==
    LET offset == Min(offset0, content_len(c))
        line == position_line(lo, offset)
    IN  Pos(line, line_offset_utf16(get_line(c, lo, line), position_delta(lo, offset)))

\* find_canonical_position: "none", or the way it panics
canonical_panic(c, lo, p) ==
    IF offset_at_panics(c, lo, p) THEN "slice"
    ELSE LET offset == offset_at(c, lo, p)
         IN  IF offset = 0 THEN "none"
             ELSE IF chars_nth(c, offset - 1) = LF
             THEN IF ~has_line(lo, p.line) THEN "index"
                  ELSE IF line_start(lo, p.line) = offset THEN "none"
                  ELSE IF ~has_line(lo, p.line + 1) THEN "index"
                  ELSE IF line_start(lo, p.line + 1) = offset THEN "none"
                  ELSE "canonical"
             ELSE "none"

\* mutant: a canonicalization that never moves a position to the next line
find_canonical_position_same_line(c, lo, p) ==
    LET offset == offset_at(c, lo, p)
    IN  IF offset = 0 THEN [position |-> Pos(0, 0), offset |-> 0]
        ELSE [position |-> p, offset |-> offset]

\* FullTextDocument::find_canonical_position: (Position, offset)
find_canonical_position(c, lo, p) ==
    LET offset == offset_at(c, lo, p)
    IN  IF offset = 0 THEN [position |-> Pos(0, 0), offset |-> 0]
        ELSE IF chars_nth(c, offset - 1) = LF
        THEN IF line_start(lo, p.line) = offset
             THEN [position |-> p, offset |-> offset]
             ELSE [position |-> Pos(p.line + 1, 0), offset |-> offset]
        ELSE [position |-> p, offset |-> offset]

\* ------------------------------------------ FullTextDocument::get_content
\* A Range {start, end}, and Option: None, or Some of a value
Range(start, end) == [start |-> start, end |-> end]
None == [some |-> FALSE]
Some(x) == [some |-> TRUE, value |-> x]

\* the two offsets get_content(Some(range)) slices the content between
get_content_start(c, lo, range) == offset_at(c, lo, range.start)
get_content_end(c, lo, range) == Min(offset_at(c, lo, range.end), content_len(c))

\* get_content(Some(range)) panics when offset_at does, and on the unwrap of
\* content.get(start..end), which is None when start > end or when an end
\* of the slice is not on a character boundary
get_content_panics(c, lo, range) ==
    \/ offset_at_panics(c, lo, range.start)
    \/ offset_at_panics(c, lo, range.end)
    \/ ~slice_ok(c, get_content_start(c, lo, range), get_content_end(c, lo, range))

\* get_content(Some(range)) and get_content(None)
get_content(c, lo, range) ==
    str_slice(c, get_content_start(c, lo, range), get_content_end(c, lo, range))
get_content_all(c) == c

\* ----------------------------------------------- FullTextDocument::update
\* A TextDocumentContentChangeEvent: range Some(start..end) or None, and text
\* (range_length is ignored by the code)
RangedChange(start, end, text) ==
    [ranged |-> TRUE, start |-> start, end |-> end, text |-> text]

FullChange(text) ==
    [ranged |-> FALSE, start |-> Pos(0, 0), end |-> Pos(0, 0), text |-> text]

\* What the message of the first assertion of update names: the two canonical
\* positions and their offsets ("{}:{} (offset {}) is not <= {}:{} (offset {})")
RangeMsg(s, e) ==
    [start |-> s.position, start_offset |-> s.offset,
     end |-> e.position, end_offset |-> e.offset]

\* the message of a call that has not failed that assertion
NoMsg == RangeMsg([position |-> Pos(0, 0), offset |-> 0], [position |-> Pos(0, 0), offset |-> 0])

\* The state of a document during update: its content and line_offsets,
\* panic = "none" or the panic that stopped the call, and msg, what the panic
\* message names
Doc(c, lo, panic) ==
    [content |-> c, line_offsets |-> lo, panic |-> panic, msg |-> NoMsg]

\* u32::saturating_add_signed: saturates at 0; the saturation at u32::MAX is
\* beyond every offset of a content of the bounded length
saturating_add_signed(x, d) == IF x + d < 0 THEN 0 ELSE x + d

\* Vec::splice(from..=to, added), from and to 0-based; the caller has checked
\* from <= to + 1 <= Len(lo)
splice(lo, from, to, added) ==
    SubSeq(lo, 1, from) \o added \o SubSeq(lo, to + 2, Len(lo))

\* the loop that shifts the entries after the spliced region by diff
shift_from(lo, first, diff) ==
    [i \in 1..Len(lo) |->
        IF i - 1 >= first /\ diff # 0 THEN saturating_add_signed(lo[i], diff) ELSE lo[i]]

\* an update that clamps an inverted range to the empty range at its start
\* instead of failing the assertion
apply_ranged_clamping(c, lo, s, e, text) ==
    LET e2 == IF s.offset > e.offset THEN s ELSE e
        content2 == replace_range(c, s.offset, e2.offset, text)
        start_line == s.position.line
        end_line == e2.position.line
    IN  IF start_line > end_line THEN Doc(content2, lo, "lines")
        ELSE LET added == computed_line_offsets(text, FALSE, s.offset)
                 splice_start == start_line + 1
             IN  IF end_line + 1 > Len(lo) THEN Doc(content2, lo, "splice")
                 ELSE LET lo2 == splice(lo, splice_start, end_line, added)
                          diff == str_len(text) - (e2.offset - s.offset)
                      IN  Doc(content2,
                              shift_from(lo2, splice_start + Len(added), diff),
                              "none")

\* the Some(range) arm of update, after both positions are canonical
apply_ranged(c, lo, s, e, text) ==
    IF s.offset > e.offset THEN [Doc(c, lo, "range") EXCEPT !.msg = RangeMsg(s, e)]
    ELSE LET content2 == replace_range(c, s.offset, e.offset, text)
             start_line == s.position.line
             end_line == e.position.line
         IN  IF start_line > end_line THEN Doc(content2, lo, "lines")
             ELSE LET added == computed_line_offsets(text, FALSE, s.offset)
                      splice_start == start_line + 1
                  IN  IF end_line + 1 > Len(lo) THEN Doc(content2, lo, "splice")
                      ELSE LET lo2 == splice(lo, splice_start, end_line, added)
                               diff == str_len(text) - (e.offset - s.offset)
                           IN  Doc(content2,
                                   shift_from(lo2, splice_start + Len(added), diff),
                                   "none")

\* one iteration of the loop of update
apply_change(c, lo, ch) ==
    IF ch.ranged
    THEN IF canonical_panic(c, lo, ch.start) # "none"
         THEN Doc(c, lo, canonical_panic(c, lo, ch.start))
         ELSE IF canonical_panic(c, lo, ch.end) # "none"
         THEN Doc(c, lo, canonical_panic(c, lo, ch.end))
         ELSE apply_ranged(c, lo, find_canonical_position(c, lo, ch.start),
                           find_canonical_position(c, lo, ch.end), ch.text)
    ELSE Doc(ch.text, computed_line_offsets(ch.text, TRUE, 0), "none")

\* mutant: an update that applies the first change of the list only
apply_changes_first_only(d, changes) ==
    IF changes = <<>> THEN d
    ELSE apply_change(d.content, d.line_offsets, Head(changes))

\* the loop of update over the changes, stopping at the first panic
RECURSIVE apply_changes(_, _)
apply_changes(d, changes) ==
    IF changes = <<>> \/ d.panic # "none" THEN d
    ELSE apply_changes(apply_change(d.content, d.line_offsets, Head(changes)),
                       Tail(changes))

\* ---------------------------------------------------------- state machine
VARIABLES
    language_id,   \* FullTextDocument.language_id
    version,       \* FullTextDocument.version
    content,       \* FullTextDocument.content
    line_offsets,  \* FullTextDocument.line_offsets
    panic,         \* "none", or the panic that ended the last update call
    requested,     \* the version argument of the last call of new or update
    shadow,        \* a second document, given the same changes in two calls
    documents,     \* TextDocuments.0, the map from uri to document
    ret,           \* what the last call of listen returned, "panic" if it did not
    expected       \* per uri, the text its events denote (history)

doc_vars == <<language_id, version, content, line_offsets, panic, requested>>
store_vars == <<documents, ret, expected>>
vars == <<doc_vars, shadow, store_vars>>

\* the inputs of the model
RECURSIVE Texts(_)
Texts(n) ==
    IF n = 0 THEN {<<>>}
    ELSE Texts(n - 1) \cup {s \o ch : s \in Texts(n - 1), ch \in Chars}
Positions == {Pos(l, c) : l \in 0..MaxLine, c \in 0..MaxCharacter}
Versions == 0..MaxVersion
LanguageIds == {"js"}
Changes ==
    {RangedChange(s, e, t) : s \in Positions, e \in Positions, t \in Texts(MaxTextLen)}
        \cup {FullChange(t) : t \in Texts(MaxTextLen)}
ChangeLists == {<<>>} \cup {<<ch>> : ch \in Changes}

\* FullTextDocument::new as a value
FullTextDocument(l, v, t) ==
    [language_id |-> l, version |-> v, content |-> t,
     line_offsets |-> computed_line_offsets(t, TRUE, 0), panic |-> "none"]

\* mutant: an update that builds the document anew, without its language
\* id, when one of the changes replaces the whole text
update_rebuilding(doc, changes, v) ==
    IF doc.panic # "none" THEN doc
    ELSE LET d == apply_changes(Doc(doc.content, doc.line_offsets, "none"), changes)
         IN  IF d.panic = "none" /\ \E i \in 1..Len(changes) : ~changes[i].ranged
             THEN FullTextDocument("", v, d.content)
             ELSE [doc EXCEPT !.content = d.content,
                              !.line_offsets = d.line_offsets,
                              !.panic = d.panic,
                              !.version = IF d.panic = "none" THEN v ELSE @]

\* FullTextDocument::update as a function of the document; a document whose
\* last call panicked receives no further call
update(doc, changes, v) ==
    IF doc.panic # "none" THEN doc
    ELSE LET d == apply_changes(Doc(doc.content, doc.line_offsets, "none"), changes)
         IN  [doc EXCEPT !.content = d.content,
                         !.line_offsets = d.line_offsets,
                         !.panic = d.panic,
                         !.version = IF d.panic = "none" THEN v ELSE @]

\* the store before the first event, and the second document when unused
EmptyStore == [uri \in {} |-> FullTextDocument("", 0, <<>>)]
StoreIdle == documents = EmptyStore /\ ret = "none" /\ expected = EmptyStore
NoShadow == FullTextDocument("", 0, <<>>)

\* FullTextDocument::new(l, v, t)
New(l, v, t) ==
    /\ language_id = l
    /\ version = v
    /\ content = t
    /\ line_offsets = computed_line_offsets(t, TRUE, 0)
    /\ panic = "none"
    /\ requested = v

Init ==
    /\ \E l \in LanguageIds, v \in Versions, t \in Texts(MaxLen) : New(l, v, t)
    /\ shadow = NoShadow
    /\ StoreIdle

\* an update that keeps the greater of the two versions
Update_keeping_newer(d, v) ==
    /\ panic = "none"
    /\ chars_count(d.content) <= MaxLen
    /\ line_count(d.line_offsets) <= MaxLineCount
    /\ content' = d.content
    /\ line_offsets' = d.line_offsets
    /\ panic' = d.panic
    /\ requested' = v
    /\ version' = IF d.panic = "none" /\ v > version THEN v ELSE version
    /\ UNCHANGED language_id

\* FullTextDocument::update(changes, v), d being what the loop over the
\* changes leaves. A panic unwinds out of the call and leaves what the loop
\* had written; version is assigned after the loop.
Update(d, v) ==
    /\ panic = "none"
    /\ chars_count(d.content) <= MaxLen
    /\ line_count(d.line_offsets) <= MaxLineCount
    /\ content' = d.content
    /\ line_offsets' = d.line_offsets
    /\ panic' = d.panic
    /\ requested' = v
    /\ version' = IF d.panic = "none" THEN v ELSE version
    /\ UNCHANGED language_id

Next ==
    \E changes \in ChangeLists :
        LET d == apply_changes(Doc(content, line_offsets, "none"), changes)
        IN  \E v \in Versions : Update(d, v) /\ UNCHANGED <<shadow, store_vars>>

Spec == Init /\ [][Next]_vars

\* ------------------------------------- one call of update or two (SeqSpec)
\* Two documents are built from the same text. Each step gives the first one
\* the changes es1 \o es2 in one call of update, and the second one es1 in
\* a call with version w followed by es2 in a call with version v.
SeqPositions ==
    {p \in {Pos(l, c) : l \in 0..SeqMaxLine, c \in 0..SeqMaxCharacter} :
        p.line = 0 \/ p.character = 0}
SeqTexts == {<<>>, <<LF>>, <<CR>>}
SeqChanges ==
    {RangedChange(s, e, t) : s \in SeqPositions, e \in SeqPositions, t \in SeqTexts}
        \cup {FullChange(t) : t \in SeqTexts}
SeqLists == {<<>>} \cup {<<ch>> : ch \in SeqChanges}

SeqInit ==
    /\ \E l \in LanguageIds, v \in Versions, t \in Texts(SeqMaxLen) :
            New(l, v, t) /\ shadow = FullTextDocument(l, v, t)
    /\ StoreIdle

SeqUpdate(es1, es2) ==
    LET d == apply_changes(Doc(content, line_offsets, "none"), es1 \o es2)
    IN  \E w \in Versions :
            LET one == update(shadow, es1, w)
            IN  \E v \in Versions :
                    LET two == update(one, es2, v)
                    IN  /\ chars_count(two.content) <= SeqMaxLen
                        /\ Update(d, v)
                        /\ shadow' = two
                        /\ UNCHANGED store_vars

SeqNext ==
    /\ panic = "none"
    /\ \E es1 \in SeqLists, es2 \in SeqLists : SeqUpdate(es1, es2)

SeqSpec == SeqInit /\ [][SeqNext]_vars

\* ------------------------------------------ TextDocuments (StoreSpec)
\* the notification methods listen matches on, and one it does not
DidOpen == "textDocument/didOpen"
DidChange == "textDocument/didChange"
DidClose == "textDocument/didClose"
DidSave == "textDocument/didSave"

\* A call of listen: the method and the params. malformed says that the
\* params are not a value serde_json can turn into the params type of the
\* method; the other fields are what the params deserialize to, those the
\* method does not have being left at "", 0 and <<>>.
Event(method, malformed, uri, l, v, t, changes) ==
    [method |-> method, malformed |-> malformed, uri |-> uri,
     language_id |-> l, version |-> v, text |-> t, changes |-> changes]

\* BTreeMap::insert and BTreeMap::remove
insert(store, uri, doc) ==
    [u \in DOMAIN store \cup {uri} |-> IF u = uri THEN doc ELSE store[u]]
remove(store, uri) == [u \in DOMAIN store \ {uri} |-> store[u]]

\* mutant: an open that keeps the document the uri already has
did_open_keeping_existing(store, ev) ==
    IF ev.malformed THEN [documents |-> store, ret |-> "expect"]
    ELSE IF ev.uri \in DOMAIN store THEN [documents |-> store, ret |-> "true"]
    ELSE [documents |->
              insert(store, ev.uri,
                     FullTextDocument(ev.language_id, ev.version, ev.text)),
          ret |-> "true"]

\* the DidOpenTextDocument arm of listen. What an arm gives is the map it
\* leaves and what listen returns: "true", or "expect" when
\* from_value(..).expect(..) panics, or "update" when update panics.
did_open(store, ev) ==
    IF ev.malformed THEN [documents |-> store, ret |-> "expect"]
    ELSE [documents |->
              insert(store, ev.uri,
                     FullTextDocument(ev.language_id, ev.version, ev.text)),
          ret |-> "true"]

\* mutant: a change that creates the document of a uri the map does not hold
did_change_creating(store, ev) ==
    IF ev.malformed THEN [documents |-> store, ret |-> "expect"]
    ELSE LET held == IF ev.uri \in DOMAIN store THEN store[ev.uri]
                     ELSE FullTextDocument("", ev.version, <<>>)
             doc == update(held, ev.changes, ev.version)
         IN  [documents |-> insert(store, ev.uri, doc),
              ret |-> IF doc.panic = "none" THEN "true" ELSE "update"]

\* the DidChangeTextDocument arm of listen
did_change(store, ev) ==
    IF ev.malformed THEN [documents |-> store, ret |-> "expect"]
    ELSE IF ev.uri \in DOMAIN store
    THEN LET doc == update(store[ev.uri], ev.changes, ev.version)
         IN  [documents |-> [store EXCEPT ![ev.uri] = doc],
              ret |-> IF doc.panic = "none" THEN "true" ELSE "update"]
    ELSE [documents |-> store, ret |-> "true"]

\* mutant: a close that takes params it cannot read for no params
did_close_lenient(store, ev) ==
    IF ev.malformed THEN [documents |-> store, ret |-> "true"]
    ELSE [documents |-> remove(store, ev.uri), ret |-> "true"]

\* the DidCloseTextDocument arm of listen
did_close(store, ev) ==
    IF ev.malformed THEN [documents |-> store, ret |-> "expect"]
    ELSE [documents |-> remove(store, ev.uri), ret |-> "true"]

\* mutant: a listen that reports every method as handled
listen_handling_all(store, ev) ==
    IF ev.method = DidOpen THEN did_open(store, ev)
    ELSE IF ev.method = DidChange THEN did_change(store, ev)
    ELSE IF ev.method = DidClose THEN did_close(store, ev)
    ELSE [documents |-> store, ret |-> "true"]

\* TextDocuments::listen(method, params)
listen(store, ev) ==
    IF ev.method = DidOpen THEN did_open(store, ev)
    ELSE IF ev.method = DidChange THEN did_change(store, ev)
    ELSE IF ev.method = DidClose THEN did_close(store, ev)
    ELSE [documents |-> store, ret |-> "false"]

\* TextDocuments::get_document_content(uri, None) and
\* TextDocuments::get_document_language(uri)
get_document_content(store, uri) ==
    IF uri \in DOMAIN store THEN Some(get_content_all(store[uri].content)) ELSE None
get_document_language(store, uri) ==
    IF uri \in DOMAIN store THEN Some(store[uri].language_id) ELSE None

\* the inputs of the store
Uris == {"file:///a", "file:///b"}
StoreLanguageIds == {"js", "md"}
StoreTexts == {<<>>, <<97>>, <<LF>>, <<CR>>}
OpenEvents ==
    {Event(DidOpen, FALSE, uri, l, v, t, <<>>) :
        uri \in Uris, l \in StoreLanguageIds, v \in Versions, t \in StoreTexts}
ChangeEvents ==
    {Event(DidChange, FALSE, uri, "", v, <<>>, changes) :
        uri \in Uris, v \in Versions, changes \in SeqLists}
CloseEvents == {Event(DidClose, FALSE, uri, "", 0, <<>>, <<>>) : uri \in Uris}
MalformedEvents ==
    {Event(m, TRUE, "", "", 0, <<>>, <<>>) : m \in {DidOpen, DidChange, DidClose}}
OtherEvents ==
    {Event(DidSave, mal, uri, "", 0, <<>>, <<>>) : mal \in BOOLEAN, uri \in Uris}
Events ==
    OpenEvents \cup ChangeEvents \cup CloseEvents \cup MalformedEvents \cup OtherEvents

\* The text a change denotes when applied to a text: what update makes of the
\* document new builds from that text. defined is FALSE when that update
\* panics.
RECURSIVE Denoted(_, _)
Denoted(e, changes) ==
    IF changes = <<>> \/ ~e.defined THEN e
    ELSE LET d == apply_change(e.content,
                               computed_line_offsets(e.content, TRUE, 0),
                               Head(changes))
         IN  Denoted([e EXCEPT !.content = d.content,
                               !.defined = d.panic = "none"],
                     Tail(changes))

\* what the events received so far say of each uri (history): the uris whose
\* last open no close follows, with the version of their last open or change
\* and the text of that open with the later changes applied
Expect(exp, ev) ==
    IF ev.malformed \/ ev.method = DidSave THEN exp
    ELSE IF ev.method = DidOpen
    THEN insert(exp, ev.uri,
                [content |-> ev.text, version |-> ev.version, defined |-> TRUE])
    ELSE IF ev.method = DidClose THEN remove(exp, ev.uri)
    ELSE IF ev.uri \in DOMAIN exp
    THEN [exp EXCEPT ![ev.uri] =
            [Denoted(@, ev.changes) EXCEPT !.version = ev.version]]
    ELSE exp

\* the process has not panicked in listen
Listening == ret \notin {"expect", "update"}

StoreInit ==
    /\ New("", 0, <<>>)
    /\ shadow = NoShadow
    /\ StoreIdle

\* one call of listen
Listen(ev) ==
    LET r == listen(documents, ev)
    IN  /\ Listening
        /\ documents' = r.documents
        /\ ret' = r.ret
        /\ expected' = IF r.ret = "true" THEN Expect(expected, ev) ELSE expected
        /\ UNCHANGED <<doc_vars, shadow>>

\* the documents of the store, and the texts the events denote, are within
\* the bounds of the model
Bounded(store, exp, n) ==
    /\ \A u \in DOMAIN store :
          /\ chars_count(store[u].content) <= n
          /\ line_count(store[u].line_offsets) <= MaxLineCount
    /\ \A u \in DOMAIN exp : chars_count(exp[u].content) <= n

StoreNext ==
    \E ev \in Events : Listen(ev) /\ Bounded(documents', expected', StoreMaxLen)

StoreSpec == StoreInit /\ [][StoreNext]_vars

\* The store with one uri, one language id and texts of line terminators
\* only, its document up to OneUriMaxLen characters long: long enough for
\* an update to leave a table that a later change is resolved against.
OneUriEvents ==
    {Event(DidOpen, FALSE, "file:///a", "js", v, t, <<>>) :
        v \in Versions, t \in SeqTexts}
    \cup {Event(DidChange, FALSE, "file:///a", "", v, <<>>, changes) :
            v \in Versions, changes \in SeqLists}
    \cup {Event(DidClose, FALSE, "file:///a", "", 0, <<>>, <<>>)}

OneUriNext ==
    \E ev \in OneUriEvents :
        Listen(ev) /\ Bounded(documents', expected', OneUriMaxLen)

OneUriSpec == StoreInit /\ [][OneUriNext]_vars

\* ------------------------------------------------- vocabulary of the claims
\* offsets and positions the queries are asked about: every offset up to one
\* past the end, every line up to one past the table, every character up to
\* one past the widest line
QueryOffsets == 0..(content_len(content) + 1)
QueryPositions ==
    {Pos(l, c) : l \in 0..line_count(line_offsets), c \in 0..(content_len(content) + 1)}

\* the document is usable: the last update call, if any, completed
Completed == panic = "none"

\* the table FullTextDocument::new computes for the content
IsFresh == line_offsets = computed_line_offsets(content, TRUE, 0)

\* the UTF-16 length of a str
RECURSIVE Utf16Len(_)
Utf16Len(s) ==
    IF s = <<>> THEN 0
    ELSE (IF is_continuation(Head(s)) THEN 0
          ELSE IF Head(s) >= 240 THEN 2 ELSE 1) + Utf16Len(Tail(s))

\* the bytes of line k as the table delimits it, terminator included
LineText(k) == get_line(content, line_offsets, k)

\* the number of terminator bytes line k ends with: 2 for \r\n, 1 for \n or \r
TerminatorLen(k) ==
    LET t == LineText(k)
        n == Len(t)
    IN  IF n >= 2 /\ t[n - 1] = CR /\ t[n] = LF THEN 2
        ELSE IF n >= 1 /\ (t[n] = LF \/ t[n] = CR) THEN 1
        ELSE 0

\* no query panics on a usable document
NoQueryPanics ==
    Completed =>
    /\ \A p \in QueryPositions : ~offset_at_panics(content, line_offsets, p)
    /\ \A o \in QueryOffsets : ~position_at_panics(content, line_offsets, o)

\* ------------------------------------------------------------------ claims

\* C1: after update has applied ranged edits, line_offsets is the table
\* FullTextDocument::new computes from the resulting content.
C1_IncrementalEqualsRecomputed == Completed => IsFresh

\* C2: in every state after new and after completed update calls,
\* line_offsets is non-empty, starts with 0, is strictly increasing and has
\* no entry beyond content_len.
C2_LineOffsetsWellFormed ==
    Completed =>
        /\ Len(line_offsets) >= 1
        /\ line_offsets[1] = 0
        /\ \A i \in 1..(Len(line_offsets) - 1) : line_offsets[i] < line_offsets[i + 1]
        /\ \A i \in 1..Len(line_offsets) : line_offsets[i] <= content_len(content)

\* C3: for every offset o in [0, content_len] on a character boundary,
\* offset_at(position_at(o)) = o.
C3_OffsetRoundTrip ==
    Completed =>
        \A o \in 0..content_len(content) :
            is_char_boundary(content, o) =>
                /\ ~position_at_panics(content, line_offsets, o)
                /\ ~offset_at_panics(content, line_offsets,
                                     position_at(content, line_offsets, o))
                /\ offset_at(content, line_offsets,
                             position_at(content, line_offsets, o)) = o

\* C3 witness: an update has left a table that differs from the recomputed
\* one, and an offset past a supplementary-plane character on a later line
\* still makes the round trip.
C3_Witness ==
    /\ Completed
    /\ ~IsFresh
    /\ \E o \in 1..content_len(content) :
        /\ is_char_boundary(content, o)
        /\ position_at(content, line_offsets, o).line >= 1
        /\ position_at(content, line_offsets, o).character >= 2
        /\ o - position_at(content, line_offsets, o).character >= 3
        /\ offset_at(content, line_offsets, position_at(content, line_offsets, o)) = o

\* a position "within document bounds": on a line of the table, its character
\* no greater than the UTF-16 length of the line
WithinBounds(p) ==
    /\ p.line < line_count(line_offsets)
    /\ p.character <= Utf16Len(LineText(p.line))

\* a canonical position: one that find_canonical_position returns unchanged
IsCanonical(p) ==
    /\ canonical_panic(content, line_offsets, p) = "none"
    /\ find_canonical_position(content, line_offsets, p).position = p

\* C4: for every canonical position p within document bounds, canonicalizing
\* position_at(offset_at(p)) yields p.
C4_PositionRoundTrip ==
    Completed =>
        \A p \in QueryPositions :
            WithinBounds(p) /\ IsCanonical(p) =>
                LET q == position_at(content, line_offsets,
                                     offset_at(content, line_offsets, p))
                IN  /\ canonical_panic(content, line_offsets, q) = "none"
                    /\ find_canonical_position(content, line_offsets, q).position = p

\* C5: position_at(offset).line is the greatest index i with
\* line_offsets[i] <= min(offset, content_len); so position_at(line_offsets[k])
\* is (k, 0) for every line k.
C5_PositionLineIsGreatestStart ==
    Completed =>
        /\ \A o \in QueryOffsets :
            LET off == Min(o, content_len(content))
                line == position_at(content, line_offsets, o).line
            IN  /\ line_start(line_offsets, line) <= off
                /\ \A i \in 0..(line_count(line_offsets) - 1) :
                    line_start(line_offsets, i) <= off => i <= line
        /\ \A k \in 0..(line_count(line_offsets) - 1) :
            position_at(content, line_offsets, line_start(line_offsets, k)) = Pos(k, 0)

\* C6 as stated: when position.character exceeds the UTF-16 length of the
\* line, offset_at clamps to the line's end excluding its terminator (the
\* offset of the first terminator byte, or content_len on an unterminated
\* last line).
C6_ClampExcludesTerminator ==
    Completed =>
        \A p \in QueryPositions :
            p.line < line_count(line_offsets)
                /\ p.character > Utf16Len(LineText(p.line)) =>
                    offset_at(content, line_offsets, p)
                        = eol_offset(content, line_offsets, p.line) - TerminatorLen(p.line)

\* C6 amended: when position.character exceeds the UTF-16 length of the line
\* (terminator included), offset_at clamps to the line's end INCLUDING its
\* terminator: the start offset of the next line, or content_len on the last
\* line.
C6_ClampIncludesTerminator ==
    Completed =>
        \A p \in QueryPositions :
            p.line < line_count(line_offsets)
                /\ p.character > Utf16Len(LineText(p.line)) =>
                    offset_at(content, line_offsets, p)
                        = IF p.line + 1 < line_count(line_offsets)
                          THEN line_start(line_offsets, p.line + 1)
                          ELSE content_len(content)

\* C6 witness: a character beyond the end of a terminated line that is not
\* the last clamps past the terminator, to the start of the next line.
C6_Witness ==
    /\ Completed
    /\ \E p \in QueryPositions :
        /\ p.line + 1 < line_count(line_offsets)
        /\ TerminatorLen(p.line) >= 1
        /\ Len(LineText(p.line)) >= 2
        /\ p.character > Utf16Len(LineText(p.line))
        /\ offset_at(content, line_offsets, p) = line_start(line_offsets, p.line + 1)

\* C7: for every line k that is not the last and every character c >= the
\* UTF-16 length of line k including its terminator,
\* offset_at((k, c)) = offset_at((k + 1, 0)) = line_offsets[k + 1].
C7_EndOfLineIsNextLineStart ==
    Completed =>
        \A p \in QueryPositions :
            p.line + 1 < line_count(line_offsets)
                /\ p.character >= Utf16Len(LineText(p.line)) =>
                    /\ offset_at(content, line_offsets, p)
                        = offset_at(content, line_offsets, Pos(p.line + 1, 0))
                    /\ offset_at(content, line_offsets, p)
                        = line_start(line_offsets, p.line + 1)

\* C7 witness: a document of at least three lines whose second line holds a
\* supplementary-plane character; the position at the end of that line and
\* the start of the third line give the same offset.
C7_Witness ==
    /\ Completed
    /\ line_count(line_offsets) >= 3
    /\ Utf16Len(LineText(1)) > chars_count(LineText(1))
    /\ offset_at(content, line_offsets, Pos(1, Utf16Len(LineText(1))))
        = offset_at(content, line_offsets, Pos(2, 0))

\* the byte offset, within a line, of the code point that holds UTF-16 unit
\* number character, from the code point at byte index i - 1 on; acc is the
\* UTF-16 width before it
RECURSIVE UnitOwner(_, _, _, _)
UnitOwner(line, i, acc, character) ==
    IF i > Len(line) THEN Len(line)
    ELSE IF character < acc + len_utf16(line[i]) THEN i - 1
    ELSE UnitOwner(line, i + len_utf8(line[i]), acc + len_utf16(line[i]), character)

\* position p names the second unit of a surrogate pair of its line
MidSurrogate(p) ==
    /\ p.line < line_count(line_offsets)
    /\ p.character >= 1
    /\ p.character < Utf16Len(LineText(p.line))
    /\ UnitOwner(LineText(p.line), 1, 0, p.character)
        = UnitOwner(LineText(p.line), 1, 0, p.character - 1)

\* C8: offset_at with a character in the middle of a surrogate pair returns
\* the byte offset of the start of that code point.
C8_MidSurrogateRoundsDown ==
    Completed =>
        \A p \in QueryPositions :
            MidSurrogate(p) =>
                offset_at(content, line_offsets, p)
                    = line_start(line_offsets, p.line)
                        + UnitOwner(LineText(p.line), 1, 0, p.character)

\* the start of the code point that holds byte offset o (o itself on a
\* character boundary)
RECURSIVE CharStart(_, _)
CharStart(s, o) == IF is_char_boundary(s, o) THEN o ELSE CharStart(s, o - 1)

\* the UTF-16 width of the code points of line that end at or before byte
\* delta
Utf16Upto(line, delta) == Utf16Len(SubSeq(line, 1, CharStart(line, Min(delta, Len(line)))))

\* C9: position_at(o).character is the sum of the UTF-16 widths of the
\* characters of the line that end at or before o; an offset strictly inside
\* a multi-byte character gives the same position as the offset of that
\* character's start; an offset greater than content_len gives the same
\* position as content_len.
C9_PositionCharacter ==
    Completed =>
        \A o \in QueryOffsets :
            LET pos == position_at(content, line_offsets, o)
                off == Min(o, content_len(content))
            IN  /\ pos.character
                    = Utf16Upto(LineText(pos.line), off - line_start(line_offsets, pos.line))
                /\ ~is_char_boundary(content, off) =>
                    pos = position_at(content, line_offsets, CharStart(content, off))
                /\ o > content_len(content) =>
                    pos = position_at(content, line_offsets, content_len(content))

\* C10: for every position, offset_at returns a byte offset in
\* [0, content_len] on a UTF-8 character boundary, and content_len when
\* position.line >= line_count.
C10_OffsetAtInRange ==
    Completed =>
        \A p \in QueryPositions :
            /\ ~offset_at_panics(content, line_offsets, p)
            /\ offset_at(content, line_offsets, p) \in 0..content_len(content)
            /\ is_char_boundary(content, offset_at(content, line_offsets, p))
            /\ p.line >= line_count(line_offsets) =>
                offset_at(content, line_offsets, p) = content_len(content)

\* C10 witness: on a document with a multi-byte character, a position on a
\* line of the table resolves past that character and a position past the
\* table resolves to content_len.
C10_Witness ==
    /\ Completed
    /\ chars_count(content) < content_len(content)
    /\ \E p \in QueryPositions :
        /\ p.line < line_count(line_offsets)
        /\ offset_at(content, line_offsets, p) >= 4
        /\ offset_at(content, line_offsets, p) < content_len(content)
    /\ offset_at(content, line_offsets, Pos(line_count(line_offsets), 0))
        = content_len(content)


\* ------------------------------------------------------------ C11 and C12
\* the canonical forms of the two ends of a ranged change exist and the
\* start's offset is greater than the end's
InvertedRange(ch) ==
    /\ ch.ranged
    /\ canonical_panic(content, line_offsets, ch.start) = "none"
    /\ canonical_panic(content, line_offsets, ch.end) = "none"
    /\ find_canonical_position(content, line_offsets, ch.start).offset
         > find_canonical_position(content, line_offsets, ch.end).offset

\* what update leaves of the document when called with the one change ch
AfterChange(ch) == apply_changes(Doc(content, line_offsets, "none"), <<ch>>)

\* a call that fails the assertion on the offsets leaves content,
\* line_offsets and version as they were
RangePanicStep ==
    (panic = "none" /\ panic' = "range") =>
        /\ content' = content
        /\ line_offsets' = line_offsets
        /\ version' = version

\* C11: a ranged edit whose canonicalized start offset is greater than its
\* canonicalized end offset makes update panic on its first assertion, with a
\* message naming both canonical positions and both offsets; the range is
\* neither swapped nor clamped, and the edit is applied neither to content
\* nor to line_offsets.
C11_InvertedRangeFails ==
    /\ [](Completed =>
            \A ch \in Changes :
                InvertedRange(ch) =>
                    AfterChange(ch) =
                        [Doc(content, line_offsets, "range") EXCEPT
                            !.msg = RangeMsg(
                                find_canonical_position(content, line_offsets, ch.start),
                                find_canonical_position(content, line_offsets, ch.end))])
    /\ [][RangePanicStep]_vars

\* an update of a three-line document has failed the assertion on the
\* offsets, as in test_update_invalid_range
C11_Witness == panic = "range" /\ line_count(line_offsets) = 3

\* C12: after every call of update that completes, version() is the version
\* the call was given, whether lower than, equal to or greater than the one
\* before and whether or not the list of changes was empty; a call that
\* panics leaves version as it was.
C12_VersionIsRequested ==
    /\ [](Completed => version = requested)
    /\ [][(panic = "none" /\ panic' # "none") => version' = version]_vars

\* an update has completed with version 0: the document holds a table no
\* scan of its content gives, which only an update leaves
C12_Witness == Completed /\ version = 0 /\ requested = 0 /\ ~IsFresh


\* -------------------------------------------------------------------- C14
\* the byte indices just after a terminator of text: after every \n, and
\* after every \r that no \n follows (text[i] is the byte at index i - 1)
TerminatorEnds(text) ==
    {i \in 1..Len(text) :
        \/ text[i] = LF
        \/ text[i] = CR /\ ~(i < Len(text) /\ text[i + 1] = LF)}

\* the members of a finite set of numbers in increasing order
RECURSIVE Increasing(_)
Increasing(S) ==
    IF S = {} THEN <<>>
    ELSE LET least == CHOOSE x \in S : \A y \in S : x <= y
         IN  <<least>> \o Increasing(S \ {least})

LineStartsOf(text) == <<0>> \o Increasing(TerminatorEnds(text))

\* C14: the table computed for a text, by new and by a full replacement, is
\* 0 followed in increasing order by i + 1 for every byte index i holding \n
\* and for every byte index i holding a \r that no \n follows; \r\n gives
\* one entry, the index after its \n.
C14_TableOfText ==
    /\ computed_line_offsets(content, TRUE, 0) = LineStartsOf(content)
    /\ Completed =>
         \A t \in Texts(MaxTextLen) :
            AfterChange(FullChange(t)) = Doc(t, LineStartsOf(t), "none")

\* new has built the table [0, 2, 3] of "\r\n\r": one entry for the \r\n and
\* one for the \r alone
C14_Witness ==
    /\ content = <<CR, LF, CR>>
    /\ line_offsets = <<0, 2, 3>>
    /\ line_offsets = LineStartsOf(content)


\* -------------------------------------------------------------------- C15
\* a character far beyond the length of every line, as in
\* test_multiple_position_same_offset
FarCharacter == 10000

\* the positions of the lines of the table whose character is beyond the
\* line's length in UTF-16 units, terminator included
FarPositions ==
    {p \in {Pos(l, c) : l \in 0..(line_count(line_offsets) - 1),
                        c \in {content_len(content) + 1, FarCharacter}} :
        p.character > Utf16Len(LineText(p.line))}

\* the text ends with \n
EndsWithLF(t) == t # <<>> /\ t[Len(t)] = LF

\* every character of the content is one byte long
OneByteChars == chars_count(content) = content_len(content)

\* C15 as stated: canonicalization of a position whose character is far
\* beyond the length of its line yields the end of that same line, not a
\* position on the next line.
C15_FarCharacterStaysOnLine ==
    Completed =>
        \A p \in FarPositions :
            canonical_panic(content, line_offsets, p) = "none" =>
                LET r == find_canonical_position(content, line_offsets, p)
                IN  /\ r.position.line = p.line
                    /\ r.offset = eol_offset(content, line_offsets, p.line)

\* C15 amended: canonicalization of such a position, when it returns, keeps
\* the offset of the end of the line, terminator included, and yields the
\* position as given, the start of the next line (line + 1, 0), or (0, 0)
\* for offset 0. In a content of one-byte characters and at an offset other
\* than 0 it yields (line + 1, 0) when the line ends with \n and the position
\* as given, its character not reduced, when it does not.
C15_FarCharacterMovesToNextLine ==
    Completed =>
        \A p \in FarPositions :
            canonical_panic(content, line_offsets, p) = "none" =>
                LET r == find_canonical_position(content, line_offsets, p)
                    eol == eol_offset(content, line_offsets, p.line)
                IN  /\ r.offset = eol
                    /\ r.position \in {p, Pos(p.line + 1, 0), Pos(0, 0)}
                    /\ eol = 0 => r.position = Pos(0, 0)
                    /\ (OneByteChars /\ eol # 0) =>
                         r.position = IF EndsWithLF(LineText(p.line))
                                      THEN Pos(p.line + 1, 0)
                                      ELSE p

\* a document of two lines, the first "a\n": (0, 10000) canonicalizes to
\* (1, 0)
C15_Witness ==
    /\ Completed
    /\ content = <<97, LF, 97>>
    /\ Pos(0, FarCharacter) \in FarPositions
    /\ find_canonical_position(content, line_offsets, Pos(0, FarCharacter))
         = [position |-> Pos(1, 0), offset |-> 2]


\* -------------------------------------------------------------------- C13
\* C13: for any lists es1 and es2, update(es1 \o es2, v) leaves the same
\* content, line_offsets and version as update(es1, w) followed by
\* update(es2, v); when a change panics, both stop at it with the same
\* content and line_offsets.
C13_SplitCallEquivalent ==
    /\ content = shadow.content
    /\ line_offsets = shadow.line_offsets
    /\ panic = shadow.panic
    /\ Completed => version = shadow.version

\* both documents have completed their updates, which left them three lines
\* and a table no scan of the content gives
C13_Witness ==
    /\ Completed
    /\ shadow.panic = "none"
    /\ shadow.content = content
    /\ line_count(shadow.line_offsets) = 3
    /\ ~IsFresh


\* -------------------------------------------------------------------- C16
\* C16: after any sequence of open, change and close events the store holds
\* exactly the uris whose most recent open is not followed by a close; for
\* each of them the content is the text of that open with all later changes
\* for the uri applied in arrival order, and the version is that of its most
\* recent open or change.
C16_StoreReflectsEvents ==
    Listening =>
        /\ DOMAIN documents = DOMAIN expected
        /\ \A uri \in DOMAIN documents :
              /\ documents[uri].version = expected[uri].version
              /\ expected[uri].defined =>
                    documents[uri].content = expected[uri].content

\* the part of C16 about the uris and the versions
StoreLifecycle ==
    Listening =>
        /\ DOMAIN documents = DOMAIN expected
        /\ \A uri \in DOMAIN documents :
              documents[uri].version = expected[uri].version


\* a document of the store that no call of new gives: its table is not the
\* one computed from its content, or its last call of update panicked
Edited(doc) ==
    \/ doc.line_offsets # computed_line_offsets(doc.content, TRUE, 0)
    \/ doc.panic # "none"

\* -------------------------------------------------------------------- C17
\* C17: an open event for a uri the store already holds replaces that
\* document and does not merge: afterwards the document of the uri has the
\* language id, the version and the text of the event and the line_offsets
\* computed from that text, whatever the earlier document was; the other
\* documents are as before and listen returns true.
C17_OpenReplaces ==
    Listening =>
        \A ev \in OpenEvents :
            ev.uri \in DOMAIN documents =>
                LET r == listen(documents, ev)
                IN  /\ r.ret = "true"
                    /\ DOMAIN r.documents = DOMAIN documents
                    /\ r.documents[ev.uri] =
                         [language_id |-> ev.language_id, version |-> ev.version,
                          content |-> ev.text,
                          line_offsets |-> LineStartsOf(ev.text), panic |-> "none"]
                    /\ \A u \in DOMAIN documents \ {ev.uri} :
                          r.documents[u] = documents[u]

\* the store holds for file:///a a document in js at version 0 whose table
\* an update has left different from the computed one, and an open for that
\* uri in md at version 1 with the text "\n" replaces it
C17_Witness ==
    /\ Listening
    /\ "file:///a" \in DOMAIN documents
    /\ documents["file:///a"].language_id = "js"
    /\ documents["file:///a"].version = 0
    /\ Edited(documents["file:///a"])
    /\ listen(documents, Event(DidOpen, FALSE, "file:///a", "md", 1, <<LF>>, <<>>))
         .documents["file:///a"] = FullTextDocument("md", 1, <<LF>>)

\* -------------------------------------------------------------------- C18
\* C18: a change event or a close event for a uri the store does not hold is
\* a silent no-op: no document is created, every document of the store is as
\* before, and listen returns true without panicking.
C18_UnknownUriIsNoOp ==
    Listening =>
        \A ev \in ChangeEvents \cup CloseEvents :
            ev.uri \notin DOMAIN documents =>
                listen(documents, ev) = [documents |-> documents, ret |-> "true"]

\* the store holds a document for file:///a and none for file:///b, and a
\* change that replaces the whole text of file:///b leaves it so
C18_Witness ==
    /\ Listening
    /\ DOMAIN documents = {"file:///a"}
    /\ listen(documents,
              Event(DidChange, FALSE, "file:///b", "", 1, <<>>, <<FullChange(<<97>>)>>))
         = [documents |-> documents, ret |-> "true"]

\* -------------------------------------------------------------------- C19
\* C19: listen called with any other method than open, change and close
\* returns false and leaves the store as it is, whatever the params; for
\* open, change and close with params of their type it returns true when it
\* returns.
C19_OtherMethodsUnhandled ==
    /\ [](Listening =>
            /\ \A ev \in OtherEvents :
                  listen(documents, ev) = [documents |-> documents, ret |-> "false"]
            /\ \A ev \in OpenEvents \cup ChangeEvents \cup CloseEvents :
                  listen(documents, ev).ret \in {"true", "update"})
    /\ [][ret' = "false" => documents' = documents]_vars

\* listen has returned false to a store that holds a document
C19_Witness == ret = "false" /\ DOMAIN documents # {}

\* -------------------------------------------------------------------- C20
\* C20: an open, change or close event whose params are not of the type of
\* its method makes listen fail on the deserialization, by the panic of
\* expect, for that one call; the store and every document in it are as
\* before.
C20_MalformedParamsFail ==
    /\ [](Listening =>
            \A ev \in MalformedEvents :
                listen(documents, ev) = [documents |-> documents, ret |-> "expect"])
    /\ [][ret' = "expect" => documents' = documents]_vars

\* listen has panicked on the params of an event and the store holds a
\* document that an update has edited
C20_Witness ==
    /\ ret = "expect"
    /\ \E u \in DOMAIN documents : Edited(documents[u])


\* -------------------------------------------------------------------- C21
\* the ranges get_content is asked about
QueryRanges == {Range(s, e) : s \in QueryPositions, e \in QueryPositions}

\* the range has its start offset after its end offset
InvertedQuery(range) ==
    get_content_start(content, line_offsets, range)
        > get_content_end(content, line_offsets, range)

\* C21: for every range, get_content(Some(range)) returns the bytes of
\* content from offset_at(range.start) up to
\* min(offset_at(range.end), content_len); get_content(None) returns the
\* whole content.
C21_GetContentReturnsSlice ==
    Completed =>
        /\ get_content_all(content) = content
        /\ \A range \in QueryRanges :
              /\ ~get_content_panics(content, line_offsets, range)
              /\ get_content(content, line_offsets, range) =
                   SubSeq(content,
                          offset_at(content, line_offsets, range.start) + 1,
                          Min(offset_at(content, line_offsets, range.end),
                              content_len(content)))

\* what holds of get_content: it panics on the ranges whose start offset is
\* after their end offset, and returns the slice for every other range
GetContentOfOrderedRange ==
    Completed =>
        \A range \in QueryRanges :
            IF InvertedQuery(range)
            THEN get_content_panics(content, line_offsets, range)
            ELSE /\ ~get_content_panics(content, line_offsets, range)
                 /\ get_content(content, line_offsets, range) =
                      SubSeq(content,
                             offset_at(content, line_offsets, range.start) + 1,
                             Min(offset_at(content, line_offsets, range.end),
                                 content_len(content)))

\* the part of C21 about the store: no content and no language for a uri
\* the store does not hold, those of the document for a uri it holds
StoreProjections ==
    \A uri \in Uris :
        IF uri \in DOMAIN documents
        THEN /\ get_document_content(documents, uri) = Some(documents[uri].content)
             /\ get_document_language(documents, uri) = Some(documents[uri].language_id)
        ELSE /\ get_document_content(documents, uri) = None
             /\ get_document_language(documents, uri) = None


\* -------------------------------------------------------------------- C22
\* C22: the language id of a document is the one given at its creation; no
\* change event, close event or other call of listen gives a uri that stays
\* in the store a different language id or adds a uri, a panicking update
\* included; an open event gives its uri the language id it carries and
\* leaves those of the other uris.
C22_LanguageIdKept ==
    Listening =>
        /\ \A ev \in Events \ OpenEvents :
              LET r == listen(documents, ev)
              IN  \A u \in DOMAIN r.documents :
                      /\ u \in DOMAIN documents
                      /\ r.documents[u].language_id = documents[u].language_id
        /\ \A ev \in OpenEvents :
              LET r == listen(documents, ev)
              IN  /\ r.documents[ev.uri].language_id = ev.language_id
                  /\ \A u \in DOMAIN documents \ {ev.uri} :
                        r.documents[u].language_id = documents[u].language_id

\* the store holds a document in md and a document in js, and an update has
\* edited both
C22_Witness ==
    /\ Listening
    /\ DOMAIN documents = Uris
    /\ documents["file:///a"].language_id = "md"
    /\ documents["file:///b"].language_id = "js"
    /\ \A u \in Uris : Edited(documents[u])


\* -------------------------------------------------------------------- C23
\* the ranged change ch has canonical ends, the start's offset not after the
\* end's
OrderedRange(ch) ==
    /\ ch.ranged
    /\ canonical_panic(content, line_offsets, ch.start) = "none"
    /\ canonical_panic(content, line_offsets, ch.end) = "none"
    /\ find_canonical_position(content, line_offsets, ch.start).offset
         <= find_canonical_position(content, line_offsets, ch.end).offset

\* what C23 says of the document d that the change ch leaves: the bytes
\* before the start offset and from the end offset on are kept around the
\* text, the entries of lines 0..=start.line are kept, and the entries of
\* the lines after end.line are the last entries, each increased by
\* len(text) - (end offset - start offset)
EditFrame(ch, d) ==
    LET s == find_canonical_position(content, line_offsets, ch.start)
        e == find_canonical_position(content, line_offsets, ch.end)
        diff == Len(ch.text) - (e.offset - s.offset)
        moved == Len(d.line_offsets) - Len(line_offsets)
    IN  /\ d.content = SubSeq(content, 1, s.offset) \o ch.text
                           \o SubSeq(content, e.offset + 1, Len(content))
        /\ \A k \in 0..s.position.line :
              k < Len(line_offsets) =>
                  /\ k < Len(d.line_offsets)
                  /\ d.line_offsets[k + 1] = line_offsets[k + 1]
        /\ \A k \in (e.position.line + 1)..(Len(line_offsets) - 1) :
              /\ k + 1 + moved \in 1..Len(d.line_offsets)
              /\ k + moved > s.position.line
              /\ d.line_offsets[k + 1 + moved] = line_offsets[k + 1] + diff

\* C23: a ranged edit with start offset s <= end offset e and text t leaves
\* the content old[0..s] ++ t ++ old[e..], leaves the line_offsets entries
\* of lines 0..=start.line unchanged, and every entry of a line after
\* end.line reappears after the inserted entries increased by
\* len(t) - (e - s).
C23_RangedEditFrame ==
    Completed =>
        \A ch \in Changes : OrderedRange(ch) => EditFrame(ch, AfterChange(ch))

\* what holds of the ranged edits: the frame of C23 for those that update
\* completes, and the content of C23 also for those it panics on
EditFrameWhenCompleted ==
    Completed =>
        \A ch \in Changes :
            OrderedRange(ch) =>
                LET d == AfterChange(ch)
                IN  IF d.panic = "none" THEN EditFrame(ch, d)
                    ELSE d.content =
                            replace_range(content,
                                find_canonical_position(content, line_offsets, ch.start).offset,
                                find_canonical_position(content, line_offsets, ch.end).offset,
                                ch.text)


\* -------------------------------------------------------------------- C24
\* C24: find_canonical_position is total: for every position given as an end
\* of a ranged edit it returns, reaching neither its panic nor an index of
\* line_offsets out of bounds, and the position it returns has the offset_at
\* of the position given.
C24_CanonicalTotal ==
    Completed =>
        \A p \in QueryPositions :
            /\ canonical_panic(content, line_offsets, p) = "none"
            /\ offset_at(content, line_offsets,
                         find_canonical_position(content, line_offsets, p).position)
                 = offset_at(content, line_offsets, p)

\* -------------------------------------------------------------------- C25
\* the line of the table that holds the offset of a canonical position
HoldsOffset(s) ==
    /\ has_line(line_offsets, s.position.line)
    /\ line_start(line_offsets, s.position.line) <= s.offset
    /\ has_line(line_offsets, s.position.line + 1) =>
          s.offset < line_start(line_offsets, s.position.line + 1)

\* C25: in update, whenever the canonical start offset is <= the canonical
\* end offset, the canonical start line is <= the canonical end line and is
\* the line that holds the start offset; the assertion
\* start_line <= end_line never fails.
C25_StartLineNotAfterEndLine ==
    /\ panic # "lines"
    /\ Completed =>
         \A ch \in Changes :
            OrderedRange(ch) =>
                LET s == find_canonical_position(content, line_offsets, ch.start)
                    e == find_canonical_position(content, line_offsets, ch.end)
                IN  /\ s.position.line <= e.position.line
                    /\ HoldsOffset(s)

\* -------------------------------------------------------------------- C26
\* a ranged change with an end on a line the table does not have, its start
\* offset not after its end offset
PastLastLine(ch) ==
    /\ ch.ranged
    /\ \/ ch.start.line >= line_count(line_offsets)
       \/ ch.end.line >= line_count(line_offsets)
    /\ offset_at(content, line_offsets, ch.start)
         <= offset_at(content, line_offsets, ch.end)

\* C26: a ranged edit whose start or end has line >= line_count is
\* tolerated: update completes, the span between the two offsets is
\* replaced by the text, and line_offsets is the table computed from the
\* resulting content.
C26_PastLastLineTolerated ==
    Completed =>
        \A ch \in Changes :
            PastLastLine(ch) =>
                LET d == AfterChange(ch)
                IN  /\ d.panic = "none"
                    /\ d.content =
                         replace_range(content,
                                       offset_at(content, line_offsets, ch.start),
                                       offset_at(content, line_offsets, ch.end),
                                       ch.text)
                    /\ d.line_offsets = computed_line_offsets(d.content, TRUE, 0)


\* -------------------------------------------------------------------- C27
\* C27: when a call of update with several edits fails on an inverted range
\* in a later edit, the document is left as it was before the call: content,
\* line_offsets and version are unchanged.
C27_FailedCallLeavesDocument == [][RangePanicStep]_vars

====
